---- MODULE Spec2Model ----
(***************************************************************************)
(* Model of the Streamlit shell of chat-with-documents (src/src/app.py).   *)
(* One behaviour is one browser session.  A render cycle is one run of the *)
(* script from top to bottom; pc is the position of the running script.    *)
(* A cycle is started by a user event on a widget (a button of the         *)
(* sidebar, the chat input) or by st.rerun(), and it ends by reaching the  *)
(* end of the script ("done"), by st.stop() ("stopped"), by st.rerun()     *)
(* ("rerun") or by an exception nobody catches ("crashed").                *)
(***************************************************************************)
EXTENDS Integers, Sequences, FiniteSets, TLC

\* ------------------------------------------------------------------ bounds
\* most chat turns the history may hold before the chat input is withheld
MaxMessages == 4
\* most temporary directories tempfile.mkdtemp() hands out in one session
MaxTempDirs == 3
\* the count of empty-folder notices saturates here
MaxEmptyNotices == 2
\* the count of set_llm calls saturates here
MaxLlmCalls == 2

\* ------------------------------------------------------- the outside world
\* process environments the session may run in (fixed for the session)
Envs == { {}, {"STREAMLIT_SERVER_HEADLESS"} }

\* what the user may type into the folder field
PathInputs == {"", "gone", "docs", "misc", "empty"}
\* os.path.exists
ExistingPaths == {"docs", "misc", "empty"}

\* what scan_folders returns for a directory
FolderFiles ==
    ("docs" :> <<"a.txt", "b.pdf", "c.docx">>) @@
    ("misc" :> <<"n.md">>) @@
    ("empty" :> <<>>)

\* the archives the user may upload: an UploadedFile has a name and entries
Zips ==
    { [name |-> "docs.zip", entries |-> <<"a.txt", "n.md">>],
      [name |-> "empty.zip", entries |-> <<>>] }

\* identifiers a collection can be scoped by
Scopes == ExistingPaths \cup {z.name : z \in Zips}

\* os.path.splitext(file)[1]
splitext ==
    ("a.txt" :> ".txt") @@ ("b.pdf" :> ".pdf") @@ ("c.docx" :> ".docx") @@
    ("n.md" :> ".md")

\* the text a loader extracts from a file it can read; c.docx is a document
\* with no text in it
FileContent ==
    ("a.txt" :> "alpha") @@ ("b.pdf" :> "beta") @@ ("c.docx" :> "") @@
    ("n.md" :> "notes")

Questions == {"q1"}

\* ---------------------------------------------------------------- state
VARIABLES
    env,            \* os.environ: the marker variables that are present
    session_state,  \* st.session_state: a mapping from the keys present
    store,          \* the vector store: scope identifier -> chunks held
    temp_dirs,      \* number of temporary directories created so far
    pc,             \* position of the script
    user_input,     \* value of st.chat_input in the current run
    i,              \* loop index of initialize_vector_store (1-based)
    coll,           \* local variable `collection` of initialize_vector_store
    opened,         \* the chunks coll held when create_collection returned it
    chat_shown,     \* the chat input was rendered by the current/last run
    notices,        \* notices written to the page by the current/last run
    rendered,       \* chat turns rendered by the current/last run
    trace,          \* operations invoked by the current/last run, in order
    run_start,      \* session_state at the start of the current/last run
    empty_notices,  \* how often "No documents found" was shown (saturating)
    upload_dirs,    \* temporary directories created since the last 'Load ZIP'
    probe,          \* the last call of a helper function and what it returned
    llm_calls       \* how often set_llm was called in the session (saturating)

vars == <<env, session_state, store, temp_dirs, pc, user_input, i, coll,
          opened, chat_shown, notices, rendered, trace, run_start, empty_notices,
          upload_dirs, probe, llm_calls>>

\* positions at which the script is not running and the page takes events
Idle == {"done", "stopped", "crashed"}

NoFile == ""
NoInput == ""
NoColl == "<none>"

\* the notices the shell writes (st.error, st.info, st.write), with the file
\* they name
FolderNotFound == <<"Folder not found. Please check the path.", NoFile>>
EnterFolderPath == <<"Please enter a folder path", NoFile>>
NoDocuments == <<"No documents found", NoFile>>
NoDocumentsInZip == <<"No documents found in ZIP", NoFile>>
StorageError == <<"Error setting up the document storage system.", NoFile>>
NotSupported(file) == <<"File not supported. Skipping.", file>>
ProcessingError(file) == <<"Error processing file. Skipping.", file>>
FileIndexWarning == <<"Warning: Could not index file names.", NoFile>>
SearchError == <<"Error searching documents. Please try again.", NoFile>>

\* no helper function has been called
NoProbe == [op |-> "none"]

\* ------------------------------------------------- session-state mapping
Has(s, k) == k \in DOMAIN s
Set(s, k, v) == [x \in DOMAIN s \cup {k} |-> IF x = k THEN v ELSE s[x]]
Del(s, k) == [x \in DOMAIN s \ {k} |-> s[x]]
EmptyState == [x \in {} |-> ""]

\* ------------------------------------------------------ helper functions
is_streamlit_cloud(e) ==
    \/ "STREAMLIT_RUNTIME" \in e
    \/ "STREAMLIT_SHARING_MODE" \in e
    \/ "STREAMLIT_SERVER_HEADLESS" \in e

\* extension -> loader: the keys of the `loaders` dict
loaders == {".txt", ".pdf", ".docx", ".odt"}

\* chunk_text(content, file): chunks tagged with their file; none for ""
chunk_text(content, file) ==
    IF content = "" THEN {}
    ELSE {[source |-> file, text |-> content, names |-> <<>>]}

\* create_file_index_chunk(files): a synthetic chunk listing the file names
create_file_index_chunk(fs) ==
    {[source |-> "file_index", text |-> "", names |-> fs]}

\* add_chunks(chunks, collection) when it succeeds: inserts, keeps the rest
add_chunks(st, chunks, c) == [st EXCEPT ![c] = @ \cup chunks]

\* ------------------------------------------------------------- sidebar
\* mutant of invalidate_index: the conversation is dropped with the index
invalidate_index_resets_chat(s) ==
    LET s1 == IF Has(s, "collection") THEN Del(s, "collection") ELSE s
        s2 == IF Has(s1, "files") THEN Del(s1, "files") ELSE s1
    IN  IF Has(s2, "messages") THEN Set(s2, "messages", <<>>) ELSE s2

\* mutant of invalidate_index: the file list is dropped, the collection kept
invalidate_index_keeps_collection(s) ==
    IF Has(s, "files") THEN Del(s, "files") ELSE s

\* lines 109-114 and 137-141: drop the index so that it is rebuilt
invalidate_index(s) ==
    LET s1 == IF Has(s, "collection") THEN Del(s, "collection") ELSE s
    IN  IF Has(s1, "files") THEN Del(s1, "files") ELSE s1

\* lines 136-141
commit_folder(s, p) == invalidate_index(Set(s, "folder_path", p))

\* mutant of reject_folder: the recorded folder survives a wrong path
reject_folder_keeps_path(s) ==
    IF Has(s, "files") THEN Del(s, "files") ELSE s

\* lines 145-148
reject_folder(s) ==
    LET s1 == IF Has(s, "files") THEN Del(s, "files") ELSE s
    IN  IF Has(s1, "folder_path") THEN Del(s1, "folder_path") ELSE s1

\* lines 109-114
commit_zip(s, z) == invalidate_index(Set(s, "uploaded_zip", z))

\* mutant of clear_chat: clearing the chat also drops the index
clear_chat_drops_index(s) ==
    LET s1 == Set(s, "messages", <<>>)
    IN  IF Has(s1, "collection") THEN Del(s1, "collection") ELSE s1

\* line 165
clear_chat(s) == Set(s, "messages", <<>>)

\* what every run resets before the sidebar is rendered
BeginRun(input) ==
    /\ user_input' = input
    /\ i' = 0
    /\ coll' = NoColl
    /\ opened' = {}
    /\ chat_shown' = FALSE
    /\ rendered' = <<>>
    /\ trace' = <<>>
    /\ run_start' = session_state

\* render_sidebar, local mode, "Load Folder" pressed with p in the field
LoadFolder(p) ==
    /\ pc \in Idle
    /\ ~is_streamlit_cloud(env)
    /\ BeginRun(NoInput)
    /\ IF p # "" /\ p \in ExistingPaths
       THEN /\ session_state' = commit_folder(session_state, p)
            /\ notices' = {}
            /\ pc' = "rerun"
       ELSE IF p # ""
       THEN /\ session_state' = reject_folder(session_state)
            /\ notices' = {FolderNotFound}
            /\ pc' = "resolve"
       ELSE /\ session_state' = session_state
            /\ notices' = {EnterFolderPath}
            /\ pc' = "resolve"
    /\ UNCHANGED <<env, store, temp_dirs, empty_notices, upload_dirs, probe, llm_calls>>

\* render_sidebar, hosted mode, "Load ZIP" pressed with z in the uploader
LoadZip(z) ==
    /\ pc \in Idle
    /\ is_streamlit_cloud(env)
    /\ BeginRun(NoInput)
    /\ session_state' = commit_zip(session_state, z)
    /\ notices' = {}
    /\ pc' = "rerun"
    /\ upload_dirs' = 0
    /\ UNCHANGED <<env, store, temp_dirs, empty_notices, probe, llm_calls>>

\* render_sidebar, either mode, "Clear Chat History" pressed
ClearChat ==
    /\ pc \in Idle
    /\ BeginRun(NoInput)
    /\ session_state' = clear_chat(session_state)
    /\ notices' = {}
    /\ pc' = "rerun"
    /\ UNCHANGED <<env, store, temp_dirs, empty_notices, upload_dirs, probe, llm_calls>>

\* render_sidebar with no button pressed: the first run, a run forced by
\* st.rerun(), or a run caused by a widget that has no handler
Refresh ==
    /\ pc \in Idle \cup {"start", "rerun"}
    /\ BeginRun(NoInput)
    /\ notices' = {}
    /\ pc' = "resolve"
    /\ UNCHANGED <<env, session_state, store, temp_dirs, empty_notices, upload_dirs,
                   probe, llm_calls>>

\* render_sidebar with no button pressed, the run being caused by the user
\* submitting q in the chat input that the last run rendered
SubmitChat(q) ==
    /\ pc \in Idle
    /\ chat_shown
    /\ Has(session_state, "messages")
    /\ Len(session_state["messages"]) + 2 <= MaxMessages
    /\ BeginRun(q)
    /\ notices' = {}
    /\ pc' = "resolve"
    /\ UNCHANGED <<env, session_state, store, temp_dirs, empty_notices, upload_dirs,
                   probe, llm_calls>>

\* an exception that no handler catches ends the run
Crash(t, n) ==
    /\ pc' = "crashed"
    /\ trace' = t
    /\ notices' = n

\* scan_folders(path) when it succeeds
scan_folders(path) == FolderFiles[path]

Min(a, b) == IF a < b THEN a ELSE b

\* -------------------------------------------------- source resolution
\* lines 271-291
ResolveSource ==
    /\ pc = "resolve"
    /\ IF Has(session_state, "folder_path")
       THEN \E scan_ok \in BOOLEAN :
            LET path == session_state["folder_path"]
                t1 == Append(trace, <<"scan_folders", path>>)
                fs == scan_folders(path)
                s1 == IF Has(session_state, "show_popup") THEN session_state
                      ELSE Set(session_state, "show_popup", TRUE)
            IN  IF ~scan_ok
                THEN /\ Crash(t1, notices)
                     /\ UNCHANGED <<session_state, temp_dirs, empty_notices, upload_dirs>>
                ELSE IF Len(fs) = 0
                THEN /\ session_state' = s1
                     /\ trace' = t1
                     /\ notices' = IF s1["show_popup"]
                                   THEN notices \cup {NoDocuments}
                                   ELSE notices
                     /\ empty_notices' = IF s1["show_popup"]
                                         THEN Min(empty_notices + 1, MaxEmptyNotices)
                                         ELSE empty_notices
                     /\ pc' = "stopped"
                     /\ UNCHANGED <<temp_dirs, upload_dirs>>
                ELSE /\ session_state' = Set(session_state, "files", fs)
                     /\ trace' = t1
                     /\ pc' = "index_start"
                     /\ UNCHANGED <<notices, temp_dirs, empty_notices, upload_dirs>>
       ELSE IF Has(session_state, "uploaded_zip")
       THEN /\ temp_dirs < MaxTempDirs
            /\ \E extract_ok \in BOOLEAN :
               LET zip == session_state["uploaded_zip"]
                   t1 == Append(trace, <<"extract_zip_and_scan", zip.name>>)
                   temp_dir == temp_dirs + 1
                   fs == zip.entries
               IN  /\ temp_dirs' = temp_dir
                   /\ upload_dirs' = upload_dirs + 1
                   /\ UNCHANGED empty_notices
                   /\ IF ~extract_ok
                      THEN /\ Crash(t1, notices)
                           /\ UNCHANGED session_state
                      ELSE IF Len(fs) = 0
                      THEN /\ trace' = t1
                           /\ notices' = notices \cup {NoDocumentsInZip}
                           /\ pc' = "stopped"
                           /\ UNCHANGED session_state
                      ELSE /\ session_state' =
                                Set(Set(session_state, "files", fs), "temp_dir", temp_dir)
                           /\ trace' = t1
                           /\ pc' = "index_start"
                           /\ UNCHANGED notices
       ELSE /\ pc' = "stopped"
            /\ UNCHANGED <<session_state, temp_dirs, notices, trace, empty_notices,
                           upload_dirs>>
    /\ UNCHANGED <<env, store, user_input, i, coll, opened, chat_shown, rendered,
                   run_start, probe, llm_calls>>

\* ------------------------------------------------------------ indexing
\* lines 299-302: the scope identifier of the collection
collection_path(e, s) ==
    IF is_streamlit_cloud(e) THEN s["uploaded_zip"].name ELSE s["folder_path"]

\* mutant of must_index: the index is rebuilt in every run
must_index_always(s) == TRUE

\* line 177: whether initialize_vector_store has to build the index
must_index(s) == ~Has(s, "collection")

\* mutant of after_create: the st.stop() of the handler is missing
after_create_no_stop(create_ok) == "index_loop"

\* lines 178-184: where the run goes once create_collection has returned
\* (create_ok) or raised: on failure the notice is followed by st.stop()
after_create(create_ok) == IF create_ok THEN "index_loop" ELSE "stopped"

\* lines 299-304, 177-186 and 222-223
IndexStart ==
    /\ pc = "index_start"
    /\ IF must_index(session_state)
       THEN \E create_ok \in BOOLEAN :
            LET scope == collection_path(env, session_state)
                t1 == Append(trace, <<"create_collection", scope>>)
            IN  /\ trace' = t1
                /\ pc' = after_create(create_ok)
                /\ coll' = IF create_ok THEN scope ELSE coll
                /\ opened' = IF create_ok THEN store[scope] ELSE opened
                /\ i' = IF after_create(create_ok) = "index_loop" THEN 1 ELSE i
                /\ notices' = IF create_ok THEN notices
                              ELSE notices \cup {StorageError}
       ELSE /\ pc' = "chat"
            /\ UNCHANGED <<trace, notices, coll, opened, i>>
    /\ UNCHANGED <<env, session_state, store, temp_dirs, user_input, chat_shown,
                   rendered, run_start, empty_notices, upload_dirs,
                   probe, llm_calls>>

\* mutant of last_file: the loop stops one file early
last_file_early(k, fs) == k >= Len(fs) - 1

\* line 189: whether the k-th file is the last one `for ... in enumerate(files)`
\* visits
last_file(k, fs) == k = Len(fs)

\* lines 189-208: one iteration of the per-file loop
IndexFile ==
    /\ pc = "index_loop"
    /\ \E load_ok, chunk_ok, add_ok \in BOOLEAN :
       LET fs == session_state["files"]
           file == fs[i]
           extension == splitext[file]
           supported == extension \in loaders
           content == IF supported THEN FileContent[file] ELSE ""
           n1 == IF supported THEN notices
                 ELSE notices \cup {NotSupported(file)}
           t1 == IF supported THEN Append(trace, <<"load", file>>) ELSE trace
           chunks == chunk_text(content, file)
           t2 == Append(t1, <<"chunk_text", file>>)
           t3 == IF chunks # {} THEN Append(t2, <<"add_chunks", file>>) ELSE t2
       IN  IF supported /\ ~load_ok
           THEN /\ Crash(t1, notices)
                /\ UNCHANGED <<store, i>>
           ELSE IF ~chunk_ok
           THEN /\ Crash(t2, n1)
                /\ UNCHANGED <<store, i>>
           ELSE /\ trace' = t3
                /\ store' = IF chunks # {} /\ add_ok
                            THEN add_chunks(store, chunks, coll) ELSE store
                /\ notices' = IF chunks # {} /\ ~add_ok
                              THEN n1 \cup {ProcessingError(file)}
                              ELSE n1
                /\ i' = i + 1
                /\ pc' = IF last_file(i, fs) THEN "index_finish" ELSE "index_loop"
    /\ UNCHANGED <<env, session_state, temp_dirs, user_input, coll, opened,
                   chat_shown, rendered, run_start, empty_notices, upload_dirs,
                   probe, llm_calls>>

\* mutant of finish_index: the run is forced again, the collection not stored
finish_index_forgets(s, c, add_ok) == [state |-> s, pc |-> "rerun"]

\* mutant of finish_index: st.rerun() is missing, the run goes on to the chat
finish_index_no_rerun(s, c, add_ok) ==
    [state |-> Set(s, "collection", c), pc |-> "chat"]

\* mutant of finish_index: a failed file-name index halts the run instead
finish_index_halts(s, c, add_ok) ==
    IF add_ok THEN [state |-> Set(s, "collection", c), pc |-> "rerun"]
    ELSE [state |-> s, pc |-> "stopped"]

\* lines 212-221: the session state and the position the run is left in once
\* add_chunks(file_index, collection) has returned (add_ok) or raised
finish_index(s, c, add_ok) ==
    [state |-> Set(s, "collection", c), pc |-> "rerun"]

\* lines 210-221: the file-name index, then the collection is stored
IndexFinish ==
    /\ pc = "index_finish"
    /\ \E build_ok, add_ok \in BOOLEAN :
       LET fs == session_state["files"]
           t1 == Append(trace, <<"create_file_index_chunk", NoFile>>)
           t2 == Append(t1, <<"add_chunks", "file_index">>)
       IN  IF ~build_ok
           THEN /\ Crash(t1, notices)
                /\ UNCHANGED <<store, session_state>>
           ELSE /\ trace' = t2
                /\ store' = IF add_ok
                            THEN add_chunks(store, create_file_index_chunk(fs), coll)
                            ELSE store
                /\ notices' = IF add_ok THEN notices
                              ELSE notices \cup {FileIndexWarning}
                /\ session_state' = finish_index(session_state, coll, add_ok).state
                /\ pc' = finish_index(session_state, coll, add_ok).pc
    /\ UNCHANGED <<env, temp_dirs, user_input, i, coll, opened, chat_shown,
                   rendered, run_start, empty_notices, upload_dirs,
                   probe, llm_calls>>

\* ---------------------------------------------------------------- chat
\* mutant of need_llm: a client is made in every run that reaches the chat
need_llm_always(s) == TRUE

\* line 311: whether a client has to be made
need_llm(s) == ~Has(s, "llm")

\* lines 311-321: the LLM client, the history, the replay of the history
ChatSetup ==
    /\ pc = "chat"
    /\ \E llm_ok \in BOOLEAN :
       LET need == need_llm(session_state)
           t1 == IF need THEN Append(trace, <<"set_llm", NoFile>>) ELSE trace
           s1 == IF need THEN Set(session_state, "llm", "client") ELSE session_state
           s2 == IF Has(s1, "messages") THEN s1 ELSE Set(s1, "messages", <<>>)
       IN  /\ llm_calls' = IF need THEN Min(llm_calls + 1, MaxLlmCalls)
                           ELSE llm_calls
           /\ IF need /\ ~llm_ok
              THEN /\ Crash(t1, notices)
                   /\ UNCHANGED <<session_state, rendered>>
              ELSE /\ session_state' = s2
                   /\ trace' = t1
                   /\ rendered' = s2["messages"]
                   /\ pc' = "input"
                   /\ UNCHANGED notices
    /\ UNCHANGED <<env, store, temp_dirs, user_input, i, coll, opened,
                   chat_shown, run_start, empty_notices, upload_dirs, probe>>

\* generate_answer(llm, question, chunks, history) when it succeeds
generate_answer(q) == "answer"

\* mutant of append_user: the user turn is put in front of the history
append_user_first(msgs, q) == <<[role |-> "user", content |-> q]>> \o msgs

\* line 238: the user turn is recorded before retrieval is tried
append_user(msgs, q) == Append(msgs, [role |-> "user", content |-> q])

\* mutant of after_query: the st.stop() of the handler is missing
after_query_no_stop(query_ok) == "generate"

\* lines 243-249: where the run goes once query_documents has returned
\* (query_ok) or raised: on failure the notice is followed by st.stop()
after_query(query_ok) == IF query_ok THEN "generate" ELSE "stopped"

\* lines 234-258: handle_chat_input(st.session_state.collection, llm)
HandleChatInput ==
    /\ pc = "input"
    /\ chat_shown' = TRUE
    /\ IF user_input = NoInput
       THEN /\ pc' = "done"
            /\ UNCHANGED <<session_state, trace, notices, rendered>>
       ELSE \E query_ok, history_ok, answer_ok \in BOOLEAN :
            LET collection == session_state["collection"]
                llm == session_state["llm"]
                user == [role |-> "user", content |-> user_input]
                m1 == append_user(session_state["messages"], user_input)
                r1 == Append(rendered, user)
                t1 == Append(trace, <<"query_documents", collection>>)
                t2 == Append(t1, <<"set_langchain_history", NoFile>>)
                t3 == Append(t2, <<"generate_answer", user_input>>)
                assistant == [role |-> "assistant",
                              content |-> generate_answer(user_input)]
            IN  IF after_query(query_ok) = "stopped"
                THEN /\ session_state' = Set(session_state, "messages", m1)
                     /\ rendered' = r1
                     /\ trace' = t1
                     /\ notices' = notices \cup {SearchError}
                     /\ pc' = "stopped"
                ELSE IF ~history_ok
                THEN /\ session_state' = Set(session_state, "messages", m1)
                     /\ rendered' = r1
                     /\ Crash(t2, notices)
                ELSE IF ~answer_ok
                THEN /\ session_state' = Set(session_state, "messages", m1)
                     /\ rendered' = r1
                     /\ Crash(t3, notices)
                ELSE /\ session_state' =
                          Set(session_state, "messages", Append(m1, assistant))
                     /\ rendered' = Append(r1, assistant)
                     /\ trace' = t3
                     /\ pc' = "done"
                     /\ notices' = IF query_ok THEN notices
                                   ELSE notices \cup {SearchError}
    /\ UNCHANGED <<env, store, temp_dirs, user_input, i, coll, opened,
                   run_start, empty_notices, upload_dirs,
                   probe, llm_calls>>

Init ==
    /\ env \in Envs
    /\ session_state = EmptyState
    /\ store = [s \in Scopes |-> {}]
    /\ temp_dirs = 0
    /\ pc = "start"
    /\ user_input = NoInput
    /\ i = 0
    /\ coll = NoColl
    /\ opened = {}
    /\ chat_shown = FALSE
    /\ notices = {}
    /\ rendered = <<>>
    /\ trace = <<>>
    /\ run_start = EmptyState
    /\ empty_notices = 0
    /\ upload_dirs = 0
    /\ probe = NoProbe
    /\ llm_calls = 0

Next ==
    \/ \E p \in PathInputs : LoadFolder(p)
    \/ \E z \in Zips : LoadZip(z)
    \/ ClearChat
    \/ Refresh
    \/ \E q \in Questions : SubmitChat(q)
    \/ ResolveSource
    \/ IndexStart
    \/ IndexFile
    \/ IndexFinish
    \/ ChatSetup
    \/ HandleChatInput

Spec == Init /\ [][Next]_vars

\* a run forced by st.rerun(), and the first run of the session
ForcedRun == pc \in {"start", "rerun"} /\ Refresh

\* the steps the script takes by itself: a run that has begun goes on to its
\* end, and st.rerun() starts the next one; what the user does is not forced
ScriptStep ==
    \/ ForcedRun
    \/ ResolveSource
    \/ IndexStart
    \/ IndexFile
    \/ IndexFinish
    \/ ChatSetup
    \/ HandleChatInput

FairSpec == Spec /\ WF_vars(ScriptStep)

\* ===================================================================
\* Properties
\* ===================================================================
Called(op) == \E k \in 1..Len(trace) : trace[k][1] = op
CalledWith(op, arg) == \E k \in 1..Len(trace) : trace[k] = <<op, arg>>
LastCall == IF Len(trace) = 0 THEN <<"", "">> ELSE trace[Len(trace)]

\* key k is present in both mappings with the same value, or absent in both
SameEntry(s, t, k) ==
    /\ Has(s, k) <=> Has(t, k)
    /\ Has(s, k) => s[k] = t[k]

ValidPath(p) == p # "" /\ p \in ExistingPaths

\* a source is committed by this step
CommitStep ==
    \/ \E p \in PathInputs : ValidPath(p) /\ LoadFolder(p)
    \/ \E z \in Zips : LoadZip(z)

\* C1: 'Load Folder' with an existing non-empty path and 'Load ZIP' record the
\* new source, leave neither `collection` nor `files` in session state and
\* force a rerun, whatever was held before; the forced run still finds no
\* collection when it reaches initialize_vector_store and so creates one for
\* the new source.
C1_CommitDropsIndex ==
    [][ /\ \A p \in PathInputs : (ValidPath(p) /\ LoadFolder(p)) =>
              /\ Has(session_state', "folder_path")
              /\ session_state'["folder_path"] = p
              /\ ~Has(session_state', "collection")
              /\ ~Has(session_state', "files")
              /\ pc' = "rerun"
        /\ \A z \in Zips : LoadZip(z) =>
              /\ Has(session_state', "uploaded_zip")
              /\ session_state'["uploaded_zip"] = z
              /\ ~Has(session_state', "collection")
              /\ ~Has(session_state', "files")
              /\ pc' = "rerun"
        /\ (pc = "rerun" /\ ~Has(session_state, "collection")) =>
              (pc' = "resolve" /\ ~Has(session_state', "collection"))
        /\ (pc = "resolve" /\ ~Has(session_state, "collection")) =>
              ~Has(session_state', "collection")
        /\ (pc = "index_start" /\ ~Has(session_state, "collection")) =>
              LastCall' = <<"create_collection", collection_path(env, session_state)>>
      ]_vars

\* a valid 'Load Folder' for another folder has just dropped a held index
C1_Witness ==
    /\ pc = "rerun"
    /\ Has(run_start, "collection") /\ Has(run_start, "files")
    /\ Has(run_start, "folder_path") /\ Has(session_state, "folder_path")
    /\ run_start["folder_path"] # session_state["folder_path"]
    /\ ~Has(session_state, "collection")

\* files of the current run whose add_chunks call raised
FailedFiles == {f \in DOMAIN splitext : ProcessingError(f) \in notices}
\* the content chunks of the files the current run inserted
InsertedChunks ==
    UNION {chunk_text(FileContent[f], f) :
             f \in {g \in DOMAIN splitext : CalledWith("add_chunks", g)} \ FailedFiles}

\* C2: a loader that raises or an add_chunks call that raises never aborts
\* the indexing run: the run shows a notice naming that file, goes on with the
\* later files and stores a collection that gained the chunks of exactly the
\* files that did not fail.
C2_PerFileFaultTolerance ==
    /\ pc = "crashed" => LastCall[1] \notin {"load", "add_chunks"}
    /\ (pc = "rerun" /\ Called("create_collection")) =>
          /\ Has(session_state, "collection")
          /\ \A k \in 1..Len(session_state["files"]) :
                CalledWith("chunk_text", session_state["files"][k])
          /\ InsertedChunks \subseteq store[session_state["collection"]]
          /\ \A f \in FailedFiles :
                chunk_text(FileContent[f], f) \cap
                   (store[session_state["collection"]] \ opened) = {}

\* C3: no failure of an operation the shell invokes ends a run as an
\* uncaught crash.
C3_NoUncaughtCrash == pc # "crashed"

\* C4: create_collection and add_chunks are called only in a run that started
\* with no `collection` in session state, and a stored collection stays in
\* session state, the same handle, until a valid 'Load Folder' or a 'Load ZIP'
\* removes it.
C4_OneCollectionPerSource ==
    /\ []((Called("create_collection") \/ Called("add_chunks")) =>
             ~Has(run_start, "collection"))
    /\ [][Has(session_state, "collection") =>
             \/ /\ Has(session_state', "collection")
                /\ session_state'["collection"] = session_state["collection"]
             \/ CommitStep]_vars

\* a run that started with the collection has reused it for a chat answer
C4_Witness ==
    /\ pc = "done"
    /\ Has(run_start, "collection")
    /\ Has(session_state, "collection")
    /\ Called("generate_answer")
    /\ ~Called("create_collection")

\* C5: 'Clear Chat History' leaves `messages` empty and folder_path,
\* uploaded_zip, files, collection and llm as they were.
C5_ClearChatFrame ==
    [][ClearChat =>
          /\ Has(session_state', "messages")
          /\ session_state'["messages"] = <<>>
          /\ \A k \in {"folder_path", "uploaded_zip", "files", "collection", "llm"} :
                SameEntry(session_state, session_state', k)]_vars

\* the history held turns and an index existed when the chat was cleared
C5_Witness ==
    /\ pc = "rerun"
    /\ Has(run_start, "messages") /\ Len(run_start["messages"]) > 0
    /\ Has(run_start, "collection") /\ Has(session_state, "collection")
    /\ Has(session_state, "messages") /\ Len(session_state["messages"]) = 0

\* C6: in local mode 'Load Folder' with a non-empty path that does not exist
\* shows an error, leaves `files` and `folder_path` absent, and the run ends
\* by st.stop() without touching session state again; with an empty path the
\* sidebar changes no session state.
C6_InvalidPath ==
    /\ [](FolderNotFound \in notices =>
             /\ pc \in {"resolve", "stopped"}
             /\ ~Has(session_state, "files")
             /\ ~Has(session_state, "folder_path"))
    /\ [][ /\ \A p \in PathInputs : (p # "" /\ p \notin ExistingPaths /\ LoadFolder(p)) =>
                 FolderNotFound \in notices'
           /\ (pc = "resolve" /\ FolderNotFound \in notices) =>
                 (pc' = "stopped" /\ session_state' = session_state
                    /\ FolderNotFound \in notices')
           /\ LoadFolder("") =>
                 (session_state' = session_state /\ EnterFolderPath \in notices')
         ]_vars

\* a wrong path was confirmed while a folder and its files were recorded
C6_Witness ==
    /\ pc = "stopped"
    /\ FolderNotFound \in notices
    /\ Has(run_start, "folder_path") /\ Has(run_start, "files")
    /\ ~Has(session_state, "folder_path") /\ ~Has(session_state, "files")

\* C7: when query_documents raises, the run halts with a notice, the question
\* is the last turn of `messages` (a user turn added to the history the run
\* started with), no assistant turn follows it and generate_answer was not
\* called.
C7_RetrievalFailure ==
    SearchError \in notices =>
       /\ pc = "stopped"
       /\ Has(run_start, "messages")
       /\ session_state["messages"] =
             Append(run_start["messages"], [role |-> "user", content |-> user_input])
       /\ LastCall[1] = "query_documents"
       /\ ~Called("generate_answer")

\* retrieval failed for a question asked when the history already held a turn
C7_Witness ==
    /\ pc = "stopped"
    /\ SearchError \in notices
    /\ Len(run_start["messages"]) = 1
    /\ Len(session_state["messages"]) = 2
    /\ session_state["messages"][2] = [role |-> "user", content |-> user_input]

\* C8: when add_chunks raises for the file-name index, a warning is shown, the
\* collection is stored all the same, it holds every content chunk the
\* per-file loop inserted, and the run ends by st.rerun() as it does when the
\* insertion succeeds.
C8_FileIndexFailure ==
    FileIndexWarning \in notices =>
       /\ pc = "rerun"
       /\ Has(session_state, "collection")
       /\ session_state["collection"] = coll
       /\ InsertedChunks \subseteq store[session_state["collection"]]
       /\ create_file_index_chunk(session_state["files"]) \cap
             (store[session_state["collection"]] \ opened) = {}

\* the file-name index failed after two files had been inserted
C8_Witness ==
    /\ FileIndexWarning \in notices
    /\ Has(session_state, "collection")
    /\ Cardinality(InsertedChunks) >= 2
    /\ InsertedChunks \subseteq store[session_state["collection"]]

\* C9: when create_collection raises, an error is shown and the run halts
\* there: nothing is loaded, chunked or inserted, no `collection` is written,
\* and `llm` and `messages` are as they were when the run started.
C9_CreateFailure ==
    StorageError \in notices =>
       /\ pc = "stopped"
       /\ LastCall[1] = "create_collection"
       /\ ~Called("load") /\ ~Called("chunk_text") /\ ~Called("add_chunks")
       /\ ~Has(session_state, "collection")
       /\ SameEntry(run_start, session_state, "llm")
       /\ SameEntry(run_start, session_state, "messages")

\* create_collection failed in a session that already holds a conversation
C9_Witness ==
    /\ pc = "stopped"
    /\ StorageError \in notices
    /\ Has(session_state, "llm")
    /\ Has(session_state, "messages") /\ Len(session_state["messages"]) > 0

\* C10: in local mode 'No documents found' is shown in at most one run of the
\* session; in hosted mode 'No documents found in ZIP' is shown in every run
\* whose archive yields no files; either way the run halts before indexing.
C10_EmptyNoticeOnce ==
    /\ empty_notices <= 1
    /\ (Called("extract_zip_and_scan") /\ pc # "crashed"
          /\ Len(session_state["uploaded_zip"].entries) = 0) =>
          NoDocumentsInZip \in notices
    /\ (NoDocuments \in notices \/ NoDocumentsInZip \in notices) =>
          (pc = "stopped" /\ ~Called("create_collection"))

\* C11: in hosted mode one temporary directory is created per archive upload:
\* between one 'Load ZIP' and the next, whatever runs happen, at most one
\* directory is created (so `temp_dir` keeps its value).
C11_OneTempDirPerUpload == upload_dirs <= 1

\* a second directory was made for one upload in a session where every
\* extraction succeeded and the index was stored
C11_Witness ==
    /\ upload_dirs = 2 /\ temp_dirs = 2
    /\ Has(session_state, "collection")
    /\ pc = "done"

\* this step calls set_llm
CallsSetLlm == trace' # trace /\ LastCall'[1] = "set_llm"

StepsOf(f) ==
    LET supported == splitext[f] \in loaders
        content == IF supported THEN FileContent[f] ELSE ""
    IN  (IF supported THEN << <<"load", f>> >> ELSE << >>)
        \o << <<"chunk_text", f>> >>
        \o (IF chunk_text(content, f) # {} THEN << <<"add_chunks", f>> >> ELSE << >>)

RECURSIVE AllSteps(_)
AllSteps(fs) == IF Len(fs) = 0 THEN << >> ELSE StepsOf(Head(fs)) \o AllSteps(Tail(fs))

\* C15: when initialize_vector_store has written `collection`, the run has
\* taken every file of the list once, in list order (load, chunk, insert if
\* there are chunks; no loader and no insert for an unrecognized extension,
\* which is reported and leaves no chunk), then tried the file-name index,
\* and only then stored the collection; `collection` is written nowhere else.
C15_AllFilesAttempted ==
    /\ []((pc = "rerun" /\ Called("create_collection")) =>
            /\ Has(session_state, "collection")
            /\ trace[2][1] = "create_collection"
            /\ SubSeq(trace, 3, Len(trace)) =
                  AllSteps(session_state["files"])
                  \o << <<"create_file_index_chunk", NoFile>>,
                        <<"add_chunks", "file_index">> >>
            /\ \A k \in 1..Len(session_state["files"]) :
                  LET f == session_state["files"][k]
                  IN  splitext[f] \notin loaders =>
                        /\ NotSupported(f) \in notices
                        /\ \A c \in store[session_state["collection"]] : c.source # f)
    /\ [][(~Has(session_state, "collection") /\ Has(session_state', "collection")) =>
             (pc = "index_finish" /\ pc' = "rerun"
                /\ LastCall' = <<"add_chunks", "file_index">>)]_vars

\* three files were indexed, the insert of the second one having failed
C15_Witness ==
    /\ pc = "rerun" /\ Called("create_collection")
    /\ Len(session_state["files"]) = 3
    /\ ProcessingError("b.pdf") \in notices
    /\ Has(session_state, "collection")

\* a source is recorded, its scan is non-empty, and no collection is held: the
\* run is about to index it
Indexing == pc = "index_start" /\ must_index(session_state)

\* the indexing run has stored the collection and forced a rerun
Stored ==
    /\ pc = "rerun" /\ Called("create_collection")
    /\ Has(session_state, "collection")

\* the run has replayed the history and accepts chat input
InChat == pc = "input" /\ Has(session_state, "collection")

\* a run begins with the source recorded and its collection held
ChatCycle ==
    /\ pc = "resolve"
    /\ Has(session_state, "collection")
    /\ Has(session_state, IF is_streamlit_cloud(env) THEN "uploaded_zip"
                          ELSE "folder_path")

\* create_collection failed, or a loader or a chunking step raised
IndexingFailed ==
    \/ pc = "stopped" /\ StorageError \in notices
    \/ pc = "crashed"
          /\ LastCall[1] \in {"load", "chunk_text", "create_file_index_chunk"}

\* the scan or the extraction of a run, or set_llm, raised
RunFailed ==
    pc = "crashed"
       /\ LastCall[1] \in {"scan_folders", "extract_zip_and_scan", "set_llm"}

\* the session has used every temporary directory this model gives it
NoTempDirLeft == temp_dirs = MaxTempDirs

Appended(h, m, q) ==
    \/ m = Append(h, [role |-> "user", content |-> q])
    \/ /\ Len(m) = Len(h) + 2
       /\ SubSeq(m, 1, Len(h) + 1) = Append(h, [role |-> "user", content |-> q])
       /\ m[Len(m)].role = "assistant"

\* C17: `messages` is created empty, is never removed, and changes only when
\* 'Clear Chat History' empties it or when handle_chat_input, given an input,
\* appends the user turn and at most one assistant turn after it; within one
\* run it is the history the run started with, that history with the turns
\* of the one input at its end, or empty; and once a run has reached the chat
\* the turns it rendered are `messages`, in order.
C17_MessagesAppendOnly ==
    /\ [][ /\ Has(session_state, "messages") => Has(session_state', "messages")
           /\ (~Has(session_state, "messages") /\ Has(session_state', "messages")) =>
                 session_state'["messages"] = <<>>
           /\ (Has(session_state, "messages") /\ Has(session_state', "messages")
                 /\ session_state'["messages"] # session_state["messages"]) =>
                 \/ ClearChat /\ session_state'["messages"] = <<>>
                 \/ /\ pc = "input" /\ user_input # NoInput
                    /\ Appended(session_state["messages"],
                                session_state'["messages"], user_input)
         ]_vars
    /\ []((Has(run_start, "messages") /\ Has(session_state, "messages")) =>
             \/ session_state["messages"] = run_start["messages"]
             \/ session_state["messages"] = <<>> /\ user_input = NoInput
             \/ /\ user_input # NoInput
                /\ Appended(run_start["messages"], session_state["messages"],
                            user_input))
    /\ []((pc = "input" \/ chat_shown) =>
             /\ Has(session_state, "messages")
             /\ rendered = session_state["messages"])

\* a run replayed a question and its answer, then took a question and
\* answered it
C17_Witness ==
    /\ pc = "done"
    /\ Has(run_start, "messages") /\ Has(session_state, "messages")
    /\ Len(run_start["messages"]) = 2
    /\ run_start["messages"][2].role = "assistant"
    /\ Len(session_state["messages"]) = 4
    /\ session_state["messages"][4].role = "assistant"
    /\ rendered = session_state["messages"]

\* the session-state key that holds the source in the mode of environment e
source_key(e) == IF is_streamlit_cloud(e) THEN "uploaded_zip" ELSE "folder_path"

\* this step is 'Load Folder' with a non-empty path that does not exist
WrongPathStep ==
    \E p \in PathInputs : p # "" /\ p \notin ExistingPaths /\ LoadFolder(p)

\* C18 as stated: whenever `collection` is in session state, the source of
\* the mode is recorded too and the collection is the one created for it.
C18_CollectionHasSource ==
    Has(session_state, "collection") =>
       /\ Has(session_state, source_key(env))
       /\ session_state["collection"] = collection_path(env, session_state)

\* C18 amended: a collection held together with a source is the one created
\* for that source; in hosted mode a held collection always has its source;
\* in local mode only 'Load Folder' with a path that does not exist leaves a
\* collection without its source, and while that lasts no run gets past
\* source resolution.
C18_CollectionMatchesSource ==
    /\ []((Has(session_state, "collection") /\ Has(session_state, source_key(env))) =>
             session_state["collection"] = collection_path(env, session_state))
    /\ []((Has(session_state, "collection") /\ is_streamlit_cloud(env)) =>
             Has(session_state, "uploaded_zip"))
    /\ []((Has(session_state, "collection") /\ ~Has(session_state, source_key(env))) =>
             pc \in {"rerun", "resolve", "stopped"})
    /\ [][(Has(session_state, "collection") /\ Has(session_state, source_key(env))
             /\ Has(session_state', "collection")
             /\ ~Has(session_state', source_key(env))) => WrongPathStep]_vars

\* a wrong path was confirmed while an index was held: the collection is
\* still there, its folder is not
C18_Witness ==
    /\ pc = "stopped"
    /\ FolderNotFound \in notices
    /\ Has(run_start, "folder_path") /\ Has(run_start, "collection")
    /\ Has(session_state, "collection")
    /\ ~Has(session_state, "folder_path")

\* C19: query_documents, set_langchain_history and generate_answer are called
\* only in a run that started with `collection` in session state and that
\* creates no collection; a run that calls create_collection never reaches
\* the chat section; and wherever the chat section reads `collection`, `llm`
\* or `messages` the entry is there.
C19_ChatNeedsStoredCollection ==
    /\ (Called("query_documents") \/ Called("set_langchain_history")
          \/ Called("generate_answer")) =>
          /\ Has(run_start, "collection")
          /\ Has(session_state, "collection")
          /\ session_state["collection"] = run_start["collection"]
          /\ ~Called("create_collection")
    /\ Called("create_collection") =>
          pc \in {"index_loop", "index_finish", "rerun", "stopped", "crashed"}
    /\ pc \in {"chat", "input"} =>
          (Has(run_start, "collection") /\ Has(session_state, "collection"))
    /\ pc = "input" =>
          (Has(session_state, "llm") /\ Has(session_state, "messages"))

\* a question has been accepted and is about to be retrieved for, in a run
\* that found the collection, the client and an answered question in place
C19_Witness ==
    /\ pc = "input"
    /\ user_input # NoInput
    /\ Has(run_start, "collection") /\ Has(run_start, "llm")
    /\ Has(session_state, "messages") /\ Len(session_state["messages"]) = 2
    /\ ~Called("create_collection")

\* this step is a press of 'Load Folder' or of 'Load ZIP'
SourceAction ==
    \/ \E p \in PathInputs : LoadFolder(p)
    \/ \E z \in Zips : LoadZip(z)

\* C20: 'Load Folder', whatever the path, and 'Load ZIP' leave `messages` and
\* `llm` as they were, and so does the run that indexes the new source: the
\* run after it replays the turns the session held before the change.
C20_SourceChangeKeepsChat ==
    /\ [][SourceAction =>
             /\ SameEntry(session_state, session_state', "messages")
             /\ SameEntry(session_state, session_state', "llm")]_vars
    /\ []((Called("scan_folders") \/ Called("extract_zip_and_scan"))
             /\ pc \in {"index_start", "index_loop", "index_finish", "rerun"} =>
             /\ SameEntry(run_start, session_state, "messages")
             /\ SameEntry(run_start, session_state, "llm"))
    /\ [](pc = "input" /\ Has(run_start, "messages") =>
             rendered = run_start["messages"])

\* another folder was committed while an index and an answered question were
\* held: the conversation is still there
C20_Witness ==
    /\ pc = "rerun"
    /\ Has(run_start, "folder_path") /\ Has(session_state, "folder_path")
    /\ run_start["folder_path"] = "docs" /\ session_state["folder_path"] = "misc"
    /\ Has(run_start, "collection") /\ ~Has(session_state, "collection")
    /\ Has(session_state, "messages") /\ Len(session_state["messages"]) = 2
    /\ session_state["messages"] = run_start["messages"]
    /\ Has(session_state, "llm")

\* ===================================================================
\* The helper functions, called on their own
\* ===================================================================
\* the marker variables is_streamlit_cloud looks for
EnvVars == {"STREAMLIT_RUNTIME", "STREAMLIT_SHARING_MODE", "STREAMLIT_SERVER_HEADLESS"}

\* strings whose characters matter are sequences of characters
str_streamlit == <<"s", "t", "r", "e", "a", "m", "l", "i", "t">>
str_cloud == <<"c", "l", "o", "u", "d">>
str_share == <<"s", "h", "a", "r", "e">>

\* socket.gethostname()
Hostnames == { <<"l", "o", "c", "a", "l", "h", "o", "s", "t">>,
               <<"p", "c">>,
               <<"c", "l", "o", "u", "d", "9">>,
               <<"s", "t", "r", "e", "a", "m", "l", "i", "t", "-", "7">> }

\* os.environ.get("STREAMLIT_HOME", ""): the empty string when it is not set
Homes == { <<>>,
           <<"/", "h", "o", "m", "e", "/", "u">>,
           <<"/", "u", "s", "r", "/", "s", "h", "a", "r", "e">>,
           <<"/", "o", "p", "t", "/", "s", "t", "r", "e", "a", "m", "l", "i", "t">> }

\* Python's `sub in text` for strings
Contains(sub, text) ==
    \E k \in 0..(Len(text) - Len(sub)) : SubSeq(text, k + 1, k + Len(sub)) = sub

\* mutant of config_is_streamlit_cloud: the headless marker is not looked at
config_is_streamlit_cloud_no_headless(e, hostname, home) ==
    \/ Contains(str_streamlit, hostname) \/ Contains(str_cloud, hostname)
    \/ Contains(str_share, home) \/ Contains(str_streamlit, home)

\* config.is_streamlit_cloud (Algorithm B)
config_is_streamlit_cloud(e, hostname, home) ==
    \/ "STREAMLIT_SERVER_HEADLESS" \in e
    \/ Contains(str_streamlit, hostname) \/ Contains(str_cloud, hostname)
    \/ Contains(str_share, home) \/ Contains(str_streamlit, home)

\* the keys a secret may be asked under, and the defaults a caller may pass
SecretKeys == {"API_KEY"}
Defaults == {"None", "fallback"}
\* what st.secrets or os.environ may hold: nothing, or a value for the key
KeyStores == {EmptyState} \cup {[k \in SecretKeys |-> "stored"]}

\* app.get_secret(key, default): the value returned, or the exception raised.
\* load_dotenv is called at line 55 but no import binds the name (lines 8-25)
get_secret(e, secrets, environ, key, default) ==
    IF is_streamlit_cloud(e)
    THEN [raised |-> "",
          value |-> IF Has(secrets, key) THEN secrets[key] ELSE default]
    ELSE [raised |-> "NameError", value |-> ""]

\* both detectors are asked about one environment
CallDetectors ==
    /\ \E hostname \in Hostnames, home \in Homes :
          probe' = [op |-> "is_streamlit_cloud", env |-> env,
                    hostname |-> hostname, home |-> home,
                    a |-> is_streamlit_cloud(env),
                    b |-> config_is_streamlit_cloud(env, hostname, home)]
    /\ UNCHANGED <<env, session_state, store, temp_dirs, pc, user_input, i, coll,
                   opened, chat_shown, notices, rendered, trace, run_start,
                   empty_notices, upload_dirs, llm_calls>>

\* get_secret is called
CallGetSecret ==
    /\ \E key \in SecretKeys, default \in Defaults,
          secrets \in KeyStores, environ \in KeyStores :
          probe' = [op |-> "get_secret", env |-> env, key |-> key,
                    default |-> default, secrets |-> secrets, environ |-> environ,
                    result |-> get_secret(env, secrets, environ, key, default)]
    /\ UNCHANGED <<env, session_state, store, temp_dirs, pc, user_input, i, coll,
                   opened, chat_shown, notices, rendered, trace, run_start,
                   empty_notices, upload_dirs, llm_calls>>

HelperInit ==
    /\ env \in SUBSET EnvVars
    /\ session_state = EmptyState
    /\ store = [s \in Scopes |-> {}]
    /\ temp_dirs = 0
    /\ pc = "start"
    /\ user_input = NoInput
    /\ i = 0
    /\ coll = NoColl
    /\ opened = {}
    /\ chat_shown = FALSE
    /\ notices = {}
    /\ rendered = <<>>
    /\ trace = <<>>
    /\ run_start = EmptyState
    /\ empty_notices = 0
    /\ upload_dirs = 0
    /\ probe = NoProbe
    /\ llm_calls = 0

HelperNext == CallDetectors \/ CallGetSecret

HelperSpec == HelperInit /\ [][HelperNext]_vars

\* the key asked for is absent from the store the mode reads
KeyAbsent ==
    IF is_streamlit_cloud(probe.env) THEN ~Has(probe.secrets, probe.key)
    ELSE ~Has(probe.environ, probe.key)

\* C12: get_secret returns the supplied default whenever the key is absent
\* from the store of the mode (st.secrets when hosted, the environment when
\* local), and the call does not fail in either mode.
C12_SecretDefault ==
    (probe.op = "get_secret" /\ KeyAbsent) =>
       (probe.result.raised = "" /\ probe.result.value = probe.default)

NoMarker(e) == e \cap EnvVars = {}
PlainHost(h) == ~Contains(str_streamlit, h) /\ ~Contains(str_cloud, h)
PlainHome(h) == ~Contains(str_share, h) /\ ~Contains(str_streamlit, h)

\* C13 as stated: with STREAMLIT_SERVER_HEADLESS the only marker present both
\* detectors answer true; with none of the three markers present and a host
\* name holding neither "streamlit" nor "cloud" both answer false.
C13_DetectorsAgree ==
    probe.op = "is_streamlit_cloud" =>
       /\ probe.env = {"STREAMLIT_SERVER_HEADLESS"} => (probe.a /\ probe.b)
       /\ (NoMarker(probe.env) /\ PlainHost(probe.hostname)) =>
             (~probe.a /\ ~probe.b)

\* C13 amended: the second case also needs STREAMLIT_HOME to be unset or to
\* hold neither "share" nor "streamlit".
C13_DetectorsAgreeAmended ==
    probe.op = "is_streamlit_cloud" =>
       /\ probe.env = {"STREAMLIT_SERVER_HEADLESS"} => (probe.a /\ probe.b)
       /\ (NoMarker(probe.env) /\ PlainHost(probe.hostname)
             /\ PlainHome(probe.home)) => (~probe.a /\ ~probe.b)

\* both cases of C13 are the ones asked about: here the headless one on a
\* plain host with a plain home, where only the marker decides
C13_Witness ==
    /\ probe.op = "is_streamlit_cloud"
    /\ probe.env = {"STREAMLIT_SERVER_HEADLESS"}
    /\ PlainHost(probe.hostname) /\ PlainHome(probe.home)
    /\ probe.a /\ probe.b
====
